---- MODULE Spec2Model ----
(***************************************************************************)
(* Spokely work order tracking: the CLI prototype (src/app.py) and the web *)
(* prototype (src/web_app.py).  Both keep the work orders in the file      *)
(* workorders.json; the web prototype also keeps last_snapshot.json (the   *)
(* list seen by the previous GET) and event_log.json (one entry per        *)
(* simulated SMS).                                                         *)
(*                                                                         *)
(* Text is modelled as a sequence of one-character strings, so that        *)
(* strip() and lower() are computed character by character.                *)
(***************************************************************************)
EXTENDS Integers, Sequences, FiniteSets, TLC

VARIABLES
    workorders_json,     \* DATA_FILE: [exists, data], data a list of work orders
    last_snapshot_json,  \* SNAPSHOT_FILE: [exists, data]
    event_log_json,      \* EVENT_LOG_FILE: [exists, data], data a list of entries
    sms_out,             \* stdout of the web app: the "[SMS simulated] ..." lines
    page,                \* what the last completed GET rendered: [notified, recent_events]
    obs,                 \* the requests in flight: per request its position and locals
    work_orders,         \* app.py: the global in-memory list
    cli_out,             \* app.py: the "Notification triggered" lines printed
    last,                \* the operation that ran last and what it saw (history)
    arg,                 \* pure-function specifications: the input
    ret                  \* pure-function specifications: the value returned

vars == <<workorders_json, last_snapshot_json, event_log_json, sms_out, page, obs,
          work_orders, cli_out, last, arg, ret>>

(***************************************************************************)
(* Text                                                                    *)
(***************************************************************************)
\* Python's None; no text is equal to it (no character is the string "None").
None == <<"None">>

Uppers == <<"A","B","C","D","E","F","G","H","I","J","K","L","M",
            "N","O","P","Q","R","S","T","U","V","W","X","Y","Z">>
Lowers == <<"a","b","c","d","e","f","g","h","i","j","k","l","m",
            "n","o","p","q","r","s","t","u","v","w","x","y","z">>

\* The characters str.strip() removes (the ASCII ones).
Whitespace == {" ", "\t", "\n", "\r", "\f"}

\* The lower-case letter of each upper-case one, and the other way round.
LowerMap ==
    [c \in {Uppers[i] : i \in DOMAIN Uppers} |->
        Lowers[CHOOSE i \in DOMAIN Uppers : Uppers[i] = c]]

UpperMap ==
    [c \in {Lowers[i] : i \in DOMAIN Lowers} |->
        Uppers[CHOOSE i \in DOMAIN Lowers : Lowers[i] = c]]

LowerChar(c) == IF c \in DOMAIN LowerMap THEN LowerMap[c] ELSE c

UpperChar(c) == IF c \in DOMAIN UpperMap THEN UpperMap[c] ELSE c

\* str.lower()
Lower(s) == [i \in DOMAIN s |-> LowerChar(s[i])]

RECURSIVE LStrip(_)
LStrip(s) ==
    IF s # <<>> /\ Head(s) \in Whitespace THEN LStrip(Tail(s)) ELSE s

RECURSIVE RStrip(_)
RStrip(s) ==
    IF s # <<>> /\ s[Len(s)] \in Whitespace
    THEN RStrip(SubSeq(s, 1, Len(s) - 1))
    ELSE s

\* str.strip()
Strip(s) == RStrip(LStrip(s))

\* Python's `x or d` on text: None and the empty text are falsy.
OrElse(x, d) == IF x = None \/ x = <<>> THEN d ELSE x

str_finished    == <<"f","i","n","i","s","h","e","d">>
str_complete    == <<"c","o","m","p","l","e","t","e">>
str_completed   == <<"c","o","m","p","l","e","t","e","d">>
str_in_progress == <<"i","n"," ","p","r","o","g","r","e","s","s">>
str_Finished    == <<"F","i","n","i","s","h","e","d">>

\* web_app.py: _status_finished without strip() (a plausible slip)
_status_finished_nostrip(status) ==
    Lower(OrElse(status, <<>>)) \in {str_finished, str_complete, str_completed}

\* web_app.py: _status_finished
_status_finished(status) ==
    Lower(Strip(OrElse(status, <<>>))) \in {str_finished, str_complete, str_completed}

(***************************************************************************)
(* Numbers typed as text                                                   *)
(***************************************************************************)
Digits == <<"0","1","2","3","4","5","6","7","8","9">>

IsDigit(c) == \E i \in DOMAIN Digits : Digits[i] = c

DigitVal(c) == (CHOOSE i \in DOMAIN Digits : Digits[i] = c) - 1

RECURSIVE DigitsVal(_)
DigitsVal(s) ==
    IF s = <<>> THEN 0
    ELSE 10 * DigitsVal(SubSeq(s, 1, Len(s) - 1)) + DigitVal(s[Len(s)])

\* int(text) and float(text) on the texts the model types: surrounding whitespace is
\* ignored, then an optional sign and decimal digits.  [ok, val]: ok is FALSE where
\* Python raises ValueError.
ParseNumber(text) ==
    LET t == Strip(text)
        neg == t # <<>> /\ Head(t) = "-"
        d == IF t # <<>> /\ Head(t) \in {"-", "+"} THEN Tail(t) ELSE t
    IN  IF d # <<>> /\ \A i \in DOMAIN d : IsDigit(d[i])
        THEN [ok |-> TRUE, val |-> IF neg THEN 0 - DigitsVal(d) ELSE DigitsVal(d)]
        ELSE [ok |-> FALSE, val |-> 0]

\* The decimal text of a one-digit number.
Text(n) == <<Digits[n + 1]>>

(***************************************************************************)
(* Lists and dicts                                                         *)
(***************************************************************************)
\* Python's None where the code expects an id: wo.get("id") of a work order without
\* one.  It is equal to no id: those are never negative.
NoId == 0 - 1

\* dict.get(key, default)
Get(wo, key, default) == IF key \in DOMAIN wo THEN wo[key] ELSE default

\* max(..., default=0) over a list of numbers
RECURSIVE MaxOf(_)
MaxOf(s) ==
    IF s = <<>> THEN 0
    ELSE IF Len(s) = 1 THEN s[1]
    ELSE LET m == MaxOf(Tail(s)) IN IF s[1] > m THEN s[1] ELSE m

\* events[start:] of Python: a negative start counts from the end, and both ends
\* are clamped to the list.
SliceFrom(s, start) ==
    LET n == Len(s)
        a == IF start < 0 THEN (IF start + n < 0 THEN 0 ELSE start + n)
             ELSE (IF start > n THEN n ELSE start)
    IN  SubSeq(s, a + 1, n)

(***************************************************************************)
(* Files.  A file is [exists, data]: whether it is on disk and the JSON    *)
(* value it holds.  Every read and write of the source is wrapped in       *)
(* try/except OSError; `ok` says whether the call went through.  A failed  *)
(* write is open() failing: the file stays as it was.                      *)
(***************************************************************************)
NoFile == [exists |-> FALSE, data |-> <<>>]

FileOf(data) == [exists |-> TRUE, data |-> data]

\* web_app.py: get_workorders(source="json")
get_workorders(ok) ==
    IF workorders_json.exists /\ ok THEN workorders_json.data ELSE <<>>

\* web_app.py: save_workorders; its value is the file afterwards
save_workorders(wos, ok) ==
    IF ok THEN FileOf(wos) ELSE workorders_json

\* web_app.py: load_snapshot
load_snapshot(ok) ==
    IF last_snapshot_json.exists /\ ok THEN last_snapshot_json.data ELSE <<>>

\* web_app.py: save_snapshot skipped (a plausible slip: the baseline never moves)
save_snapshot_skipped(wos, ok) == last_snapshot_json

\* web_app.py: save_snapshot that stores the finished work orders only (a plausible
\* slip: they are all the next diff looks up)
save_snapshot_finished_only(wos, ok) ==
    IF ok THEN FileOf(SelectSeq(wos, LAMBDA wo : _status_finished(Get(wo, "status", None))))
    ELSE last_snapshot_json

\* web_app.py: save_snapshot; its value is the file afterwards
save_snapshot(wos, ok) ==
    IF ok THEN FileOf(wos) ELSE last_snapshot_json

\* web_app.py: _read_event_log, of the log file `file`
_read_event_log(file, ok) ==
    IF file.exists /\ ok THEN file.data ELSE <<>>

\* web_app.py: _write_event_log; its value is the file afterwards
_write_event_log(file, events, ok) ==
    IF ok THEN FileOf(events) ELSE file

(***************************************************************************)
(* web_app.py: the event log                                               *)
(***************************************************************************)
\* The entry append_event builds.  Its timestamp (datetime.utcnow()) is left out:
\* no operation reads it back.
Entry(workorder_id, event_type, message) ==
    [workorder_id |-> workorder_id, event_type |-> event_type, message |-> message]

\* web_app.py: append_event, on the log file `file`; its value is the file afterwards
append_event(file, workorder_id, event_type, message, rd_ok, wr_ok) ==
    LET events == _read_event_log(file, rd_ok)
    IN  _write_event_log(file, Append(events, Entry(workorder_id, event_type, message)), wr_ok)

\* web_app.py: get_recent_events, of the log file `file`
get_recent_events(file, limit) ==
    LET events == _read_event_log(file, TRUE)
    IN  IF Len(events) > limit THEN SliceFrom(events, 0 - limit) ELSE events

\* index() asks for get_recent_events(10)
RecentLimit == 10

(***************************************************************************)
(* web_app.py: the workflow engine                                         *)
(***************************************************************************)
\* f"SMS would be sent to {customer} for work order #{wid} ({item})": the pieces of
\* the formatted text, in order.
Message(customer, wid, item) ==
    <<"SMS would be sent to ", customer, " for work order #", wid, " (", item, ")">>

\* old_by_id.get(wid): the positions of old_list that hold wid; a dict built from a
\* list keeps the last one.
OldPositions(old_list, wid) ==
    {i \in DOMAIN old_list : Get(old_list[i], "id", NoId) = wid}

\* old_finished that takes a missing previous entry for finished (a plausible slip)
OldFinished_absent_finished(old_list, wid) ==
    LET at == OldPositions(old_list, wid)
    IN  IF at = {} THEN TRUE
        ELSE _status_finished(
                 Get(old_list[CHOOSE i \in at : \A j \in at : j <= i], "status", None))

\* old_finished of detect_finished_and_notify, for the id wid
OldFinished(old_list, wid) ==
    LET at == OldPositions(old_list, wid)
    IN  IF at = {} THEN FALSE
        ELSE _status_finished(
                 Get(old_list[CHOOSE i \in at : \A j \in at : j <= i], "status", None))

\* The test of the loop that ignores the old list (a plausible slip)
BecameFinished_ignoring_old(old_list, wo) ==
    _status_finished(Get(wo, "status", None))

\* The test of the loop of detect_finished_and_notify: new_finished and not old_finished
BecameFinished(old_list, wo) ==
    /\ _status_finished(Get(wo, "status", None))
    /\ ~OldFinished(old_list, Get(wo, "id", NoId))

\* One iteration of the loop that puts the newest notification first (a plausible slip)
DetectOne_newest_first(old_list, wo, acc, io) ==
    IF BecameFinished(old_list, wo)
    THEN LET wid == Get(wo, "id", NoId)
             customer == Get(wo, "customer", <<>>)
             item == Get(wo, "item", <<>>)
             message == Message(customer, wid, item)
         IN  [log      |-> append_event(acc.log, wid, "sms_simulated", message, io.rd, io.wr),
              out      |-> Append(acc.out, <<"[SMS simulated] ", message>>),
              notified |-> <<<<wid, customer, item>>>> \o acc.notified]
    ELSE acc

\* One iteration of the loop of detect_finished_and_notify, for the work order wo.
\* acc is [log, out, notified]: the log file, stdout and the list being returned;
\* io is [rd, wr]: whether append_event's read and write of the log go through.
DetectOne(old_list, wo, acc, io) ==
    IF BecameFinished(old_list, wo)
    THEN LET wid == Get(wo, "id", NoId)
             customer == Get(wo, "customer", <<>>)
             item == Get(wo, "item", <<>>)
             message == Message(customer, wid, item)
         IN  [log      |-> append_event(acc.log, wid, "sms_simulated", message, io.rd, io.wr),
              out      |-> Append(acc.out, <<"[SMS simulated] ", message>>),
              notified |-> Append(acc.notified, <<wid, customer, item>>)]
    ELSE acc

RECURSIVE DetectFrom(_, _, _, _, _)
DetectFrom(old_list, new_list, i, acc, io) ==
    IF i > Len(new_list) THEN acc
    ELSE DetectFrom(old_list, new_list, i + 1,
                    DetectOne(old_list, new_list[i], acc, io[i]), io)

\* web_app.py: detect_finished_and_notify, started with the log file and stdout
\* as they are; io[i] is the outcome of the log's read and write in iteration i.
detect_finished_and_notify(old_list, new_list, log, out, io) ==
    DetectFrom(old_list, new_list, 1, [log |-> log, out |-> out, notified |-> <<>>], io)

\* Every read and write goes through.
AllOk(n) == [i \in 1..n |-> [rd |-> TRUE, wr |-> TRUE]]

\* web_app.py: _next_id
_next_id(wos) == MaxOf([i \in DOMAIN wos |-> Get(wos[i], "id", 0)]) + 1

(***************************************************************************)
(* The requests of the web prototype, each one whole: web_app.py index()   *)
(***************************************************************************)
\* The most work orders the model creates.
MaxOrders == 2

\* The most "[SMS simulated]" lines a model run prints before GET is no longer taken.
MaxSms == MaxOrders + 1

Ana     == <<"A","n","a">>
Bo      == <<"B","o">>
Tune_up == <<"T","u","n","e","-","u","p">>

\* What a browser may post with action=add (None: the field is missing).
AddForms ==
    {[customer |-> <<" ">> \o Ana, item |-> Tune_up, total |-> <<"2","5">>, status |-> None],
     [customer |-> Bo, item |-> Tune_up, total |-> <<"a","b","c">>,
      status |-> <<" ","C","O","M","P","L","E","T","E","D"," ">>],
     [customer |-> Bo, item |-> Tune_up, total |-> None, status |-> <<" ">>],
     [customer |-> None, item |-> Tune_up, total |-> None, status |-> None],
     [customer |-> Ana, item |-> <<" ">>, total |-> None, status |-> None]}

\* What a browser may post as workorder_id with action=mark_finished.
MarkForms == {None, <<"x">>} \cup {Text(n) : n \in 1..(MaxOrders + 1)}

\* What `last` remembers of an operation: its name and, when it was a mark_finished or
\* a finish of a stored work order neither finished nor notified before it (pending),
\* the id of that work order (0 otherwise).
Brief(op, wid, pending) == [op |-> op, wid |-> wid, pending |-> pending]

NoBrief == Brief("start", 0, FALSE)

\* What `last` holds after an operation: its name, id and pending as in Brief and, for
\* a GET, the lists it compared, the event log before it, the outcomes io of its file
\* calls, and in prev the operation before it.
Op(op, wid, pending, old_list, new_list, log_before, io, prev) ==
    [op |-> op, wid |-> wid, pending |-> pending, old_list |-> old_list,
     new_list |-> new_list, log_before |-> log_before, io |-> io, prev |-> prev]

\* The work order the POST: Add Work Order branch of index() builds from the form.
NewWorkOrder(form, wos) ==
    LET total == ParseNumber(OrElse(form.total, <<"0">>))
    IN  [id |-> _next_id(wos),
         customer |-> Strip(OrElse(form.customer, <<>>)),
         item |-> Strip(OrElse(form.item, <<>>)),
         status |-> OrElse(Strip(OrElse(form.status, str_in_progress)), str_in_progress),
         total |-> IF total.ok THEN total.val ELSE 0,
         notification_sent |-> FALSE]

\* index(): POST with action=add, what it does to the files
IndexAdd(form, rd_ok, wr_ok) ==
    LET wos == get_workorders(rd_ok)
        new_wo == NewWorkOrder(form, wos)
        valid == new_wo.customer # <<>> /\ new_wo.item # <<>>
    IN  /\ Len(workorders_json.data) < MaxOrders
        /\ workorders_json' = IF valid THEN save_workorders(Append(wos, new_wo), wr_ok)
                              ELSE workorders_json
        /\ UNCHANGED <<last_snapshot_json, event_log_json, sms_out, page, obs,
                       work_orders, cli_out, arg, ret>>

\* index(): POST with action=add
WebAdd(form, rd_ok, wr_ok) ==
    /\ IndexAdd(form, rd_ok, wr_ok)
    /\ last' = Op("add", 0, FALSE, <<>>, <<>>, <<>>, <<>>, NoBrief)

\* The loop of the mark_finished branch that leaves notification_sent alone
\* (a plausible slip)
MarkIn_status_only(wos, wid) ==
    LET at == {i \in DOMAIN wos : Get(wos[i], "id", NoId) = wid}
    IN  IF at = {} THEN wos
        ELSE LET k == CHOOSE i \in at : \A j \in at : i <= j
             IN  [wos EXCEPT ![k] = [f \in DOMAIN wos[k] \cup {"status"} |->
                                        IF f = "status" THEN str_Finished ELSE wos[k][f]]]

\* The loop of the mark_finished branch: the first work order with id wid gets status
\* "Finished" and, when it has the key, notification_sent True.
MarkIn(wos, wid) ==
    LET at == {i \in DOMAIN wos : Get(wos[i], "id", NoId) = wid}
    IN  IF at = {} THEN wos
        ELSE LET k == CHOOSE i \in at : \A j \in at : i <= j
             IN  [wos EXCEPT ![k] = [f \in DOMAIN wos[k] \cup {"status"} |->
                                        IF f = "status" THEN str_Finished
                                        ELSE IF f = "notification_sent" THEN TRUE
                                        ELSE wos[k][f]]]

\* Whether the work order with id wid is stored, not finished and not notified.
Pending(wos, wid) ==
    \E i \in DOMAIN wos :
        /\ wos[i].id = wid
        /\ ~_status_finished(wos[i].status)
        /\ Get(wos[i], "notification_sent", FALSE) = FALSE

\* int(request.form.get("workorder_id")): [ok, val], ok FALSE where wid is None
WidOf(text) == IF text = None THEN [ok |-> FALSE, val |-> 0] ELSE ParseNumber(text)

\* index(): POST with action=mark_finished, what it does to the files
IndexMarkFinished(text, rd_ok, wr_ok) ==
    LET wid == WidOf(text)
        wos == get_workorders(rd_ok)
    IN  /\ workorders_json' = IF wid.ok THEN save_workorders(MarkIn(wos, wid.val), wr_ok)
                              ELSE workorders_json
        /\ UNCHANGED <<last_snapshot_json, event_log_json, sms_out, page, obs,
                       work_orders, cli_out, arg, ret>>

\* index(): POST with action=mark_finished
WebMarkFinished(text, rd_ok, wr_ok) ==
    LET wid == WidOf(text)
        pending == wid.ok /\ Pending(get_workorders(rd_ok), wid.val)
    IN  /\ IndexMarkFinished(text, rd_ok, wr_ok)
        /\ last' = Op("mark_finished", IF pending THEN wid.val ELSE 0, pending,
                      <<>>, <<>>, <<>>, <<>>, NoBrief)

\* index(): GET, what it does to the files, stdout and the page.  io is [wos, snap_rd,
\* log, snap_wr]: whether the read of the work orders, the read of the snapshot, each
\* append_event and the write of the snapshot go through.
IndexGet(io) ==
    LET new_list == get_workorders(io.wos)
        old_list == load_snapshot(io.snap_rd)
        done == detect_finished_and_notify(old_list, new_list, event_log_json, sms_out, io.log)
    IN  /\ Len(sms_out) < MaxSms
        /\ event_log_json' = done.log
        /\ sms_out' = done.out
        /\ last_snapshot_json' = save_snapshot(new_list, io.snap_wr)
        /\ page' = [notified |-> done.notified,
                    recent_events |-> get_recent_events(done.log, RecentLimit)]
        /\ UNCHANGED <<workorders_json, obs, work_orders, cli_out, arg, ret>>

\* index(): GET
WebGet(io) ==
    LET new_list == get_workorders(io.wos)
        old_list == load_snapshot(io.snap_rd)
        \* io, with the outcome kept only of the calls this GET made
        made == [wos     |-> io.wos \/ ~workorders_json.exists,
                 snap_rd |-> io.snap_rd \/ ~last_snapshot_json.exists,
                 snap_wr |-> io.snap_wr,
                 log     |-> [i \in DOMAIN io.log |->
                                 IF i \in DOMAIN new_list /\ BecameFinished(old_list, new_list[i])
                                 THEN io.log[i]
                                 ELSE [rd |-> TRUE, wr |-> TRUE]]]
    IN  /\ IndexGet(io)
        /\ last' = Op("get", 0, FALSE, old_list, new_list, event_log_json.data, made,
                      Brief(last.op, last.wid, last.pending))

\* Every call goes through.
GetOk == [wos |-> TRUE, snap_rd |-> TRUE, log |-> AllOk(MaxOrders), snap_wr |-> TRUE]

\* The GET requests that may be in flight together.
NumObservers == 2

Procs == 1..NumObservers

\* A GET request that has not started: its position in index() and its locals.
IdleObserver ==
    [pc |-> "idle", new_list |-> <<>>, old_list |-> <<>>, i |-> 1, notified |-> <<>>]

\* Nothing printed, no request in flight, nothing in memory, nothing returned.
Quiet ==
    /\ sms_out = <<>>
    /\ page = [notified |-> <<>>, recent_events |-> <<>>]
    /\ obs = [p \in Procs |-> IdleObserver]
    /\ work_orders = <<>>
    /\ cli_out = <<>>
    /\ last = [op |-> "start", wid |-> 0, pending |-> FALSE, old_list |-> <<>>,
               new_list |-> <<>>, log_before |-> <<>>, io |-> <<>>, prev |-> NoBrief]
    /\ ret = <<>>

\* Nothing on disk either: the state a first start finds.
Blank ==
    /\ workorders_json = NoFile
    /\ last_snapshot_json = NoFile
    /\ event_log_json = NoFile
    /\ Quiet

\* The web prototype serving one request at a time, every file call going through.
Init == Blank /\ arg = <<>>

Add == \E form \in AddForms : WebAdd(form, TRUE, TRUE)

MarkFinished == \E text \in MarkForms : WebMarkFinished(text, TRUE, TRUE)

Observe == WebGet(GetOk)

Next == Add \/ MarkFinished \/ Observe

Spec == Init /\ [][Next]_vars

(***************************************************************************)
(* Properties of the web prototype serving one request at a time           *)
(***************************************************************************)
\* The entries the last GET appended to the event log.
Appended == SubSeq(event_log_json.data, Len(last.log_before) + 1, Len(event_log_json.data))

\* How many entries of the list of entries `events` are simulated SMS for wid.
SmsFor(events, wid) ==
    Cardinality({i \in DOMAIN events : /\ events[i].event_type = "sms_simulated"
                                       /\ events[i].workorder_id = wid})

\* How many elements of the notified list are for wid.
NotifiedFor(notified, wid) ==
    Cardinality({i \in DOMAIN notified : notified[i][1] = wid})

\* How many lines of stdout are for wid (a line is <<"[SMS simulated] ", message>>).
PrintedFor(out, wid) ==
    Cardinality({i \in DOMAIN out : out[i][2][4] = wid})

\* C2: with one request at a time and every file call going through, the event log
\* never holds two sms_simulated entries with the same workorder_id, and no work order
\* is dispatched for (printed) twice.
C2_AtMostOncePerId ==
    \A wid \in 1..MaxOrders :
        /\ SmsFor(event_log_json.data, wid) <= 1
        /\ PrintedFor(sms_out, wid) <= 1

\* C2 witness: a work order was notified by an earlier GET, other requests followed,
\* and a later GET has run without dispatching for it again.
C2_Witness ==
    /\ last.op = "get"
    /\ last.prev.op = "add"
    /\ \E wid \in 1..MaxOrders : SmsFor(last.log_before, wid) = 1
    /\ Len(workorders_json.data) = MaxOrders

\* C3: a GET whose previous snapshot equals the current list returns an empty notified
\* list and appends no event; the log and the length of get_recent_events(10) are as
\* they were before it.
C3_IdempotentObservation ==
    (last.op = "get" /\ last.old_list = last.new_list) =>
        /\ page.notified = <<>>
        /\ event_log_json.data = last.log_before
        /\ Len(page.recent_events) =
               Len(get_recent_events(FileOf(last.log_before), RecentLimit))

\* C3 witness: a GET has run on an unchanged list that holds a finished work order
\* already in the log.
C3_Witness ==
    /\ last.op = "get"
    /\ last.old_list = last.new_list
    /\ \E i \in DOMAIN last.new_list :
           /\ _status_finished(last.new_list[i].status)
           /\ SmsFor(event_log_json.data, last.new_list[i].id) = 1

\* C5 (as claimed): no GET puts in its notified list, or appends a log entry for, a
\* work order whose notification_sent is already true and whose status is finished.
C5_FlagSuppressesDispatch ==
    last.op = "get" =>
        \A i \in DOMAIN last.new_list :
            LET wo == last.new_list[i]
            IN  (wo.notification_sent = TRUE /\ _status_finished(wo.status)) =>
                    /\ NotifiedFor(page.notified, wo.id) = 0
                    /\ SmsFor(Appended, wo.id) = 0

\* C6: when a mark_finished request for a stored work order that was neither finished
\* nor notified is followed by a GET, that GET dispatches exactly one notification for
\* it, whose message names its customer and item, the log gains exactly one entry for
\* it, of type sms_simulated, and its notification_sent is true.
C6_MarkThenObserve ==
    (last.op = "get" /\ last.prev.op = "mark_finished" /\ last.prev.pending) =>
        LET wid == last.prev.wid
            at == {i \in DOMAIN workorders_json.data : workorders_json.data[i].id = wid}
            new == {i \in DOMAIN Appended : Appended[i].workorder_id = wid}
        IN  /\ Cardinality(at) = 1
            /\ NotifiedFor(page.notified, wid) = 1
            /\ PrintedFor(sms_out, wid) = 1
            /\ Cardinality(new) = 1
            /\ \A i \in at : \A k \in new :
                   LET wo == workorders_json.data[i]
                   IN  /\ wo.notification_sent = TRUE
                       /\ Appended[k].event_type = "sms_simulated"
                       /\ Appended[k].message[2] = wo.customer
                       /\ Appended[k].message[6] = wo.item
                       /\ <<wid, wo.customer, wo.item>> \in
                              {page.notified[n] : n \in DOMAIN page.notified}

\* C6 witness: a GET has run right after such a mark_finished, with another work
\* order in the list.
C6_Witness ==
    /\ last.op = "get"
    /\ last.prev.op = "mark_finished"
    /\ last.prev.pending
    /\ Len(last.new_list) = MaxOrders
    /\ NotifiedFor(page.notified, last.prev.wid) = 1

\* The work orders of new_list that are finished and have no entry in old_list.
AbsentFinished(old_list, new_list) ==
    {i \in DOMAIN new_list : /\ _status_finished(new_list[i].status)
                             /\ OldPositions(old_list, new_list[i].id) = {}}

\* C7: a finished work order whose id is in the current list only (also when there is
\* no snapshot yet) is one transition of that GET, and of the GET that follows on the
\* unchanged list it is none.
C7_AbsenceIsNotFinished ==
    /\ last.op = "get" =>
           \A i \in AbsentFinished(last.old_list, last.new_list) :
               /\ NotifiedFor(page.notified, last.new_list[i].id) = 1
               /\ SmsFor(Appended, last.new_list[i].id) = 1
    /\ (last.op = "get" /\ last.prev.op = "get") =>
           \A i \in DOMAIN last.new_list :
               NotifiedFor(page.notified, last.new_list[i].id) = 0

\* C7 witness: the first GET ever (no snapshot on disk before it) has seen a work order
\* that was added finished.
C7_Witness ==
    /\ last.op = "get"
    /\ last.prev.op = "add"
    /\ last.old_list = <<>>
    /\ AbsentFinished(last.old_list, last.new_list) # {}
    /\ Len(event_log_json.data) = Cardinality(AbsentFinished(last.old_list, last.new_list))

(***************************************************************************)
(* _status_finished on its own: the status texts it is applied to          *)
(***************************************************************************)
\* The longest run of whitespace put before and after a word.
MaxPad == 1

\* The texts of at most n characters of the set chars.
RECURSIVE TextsUpTo(_, _)
TextsUpTo(chars, n) ==
    IF n = 0 THEN {<<>>}
    ELSE LET shorter == TextsUpTo(chars, n - 1)
         IN  shorter \cup {Append(t, c) : t \in shorter, c \in chars}

Pads == TextsUpTo({" ", "\t", "\n"}, MaxPad)

\* Lower-case words with no whitespace at either end: the three that mean finished
\* and others, some of them near misses.
FinishedWords == {str_finished, str_complete, str_completed}

OtherWords ==
    {str_in_progress, <<>>, <<"d","o","n","e">>, <<"f","i","n","i","s","h">>,
     <<"c","o","m","p","l","e","t","e","s">>, <<"f","i","n"," ","i","s","h","e","d">>,
     <<"u","n","f","i","n","i","s","h","e","d">>}

\* The word w with the letters at the positions up in upper case.
Cased(w, up) == [i \in DOMAIN w |-> IF i \in up THEN UpperChar(w[i]) ELSE w[i]]

\* The ways a word is capitalised: not at all, entirely, a prefix, one letter.
Casings(w) ==
    {{}} \cup {1..i : i \in DOMAIN w} \cup {{i} : i \in DOMAIN w}

\* The status to test: arg is the word it was made from and the text itself, or None
\* for both (no status).
InitStatus ==
    /\ Blank
    /\ \/ \E w \in FinishedWords \cup OtherWords, l \in Pads, r \in Pads :
              \E up \in Casings(w) : arg = [word |-> w, text |-> l \o Cased(w, up) \o r]
       \/ arg = [word |-> None, text |-> None]

ApplyStatusFinished ==
    /\ last.op = "start"
    /\ ret' = _status_finished(arg.text)
    /\ last' = Op("_status_finished", 0, FALSE, <<>>, <<>>, <<>>, <<>>, NoBrief)
    /\ UNCHANGED <<workorders_json, last_snapshot_json, event_log_json, sms_out, page,
                   obs, work_orders, cli_out, arg>>

SpecStatus == InitStatus /\ [][ApplyStatusFinished]_vars

\* C8: _status_finished(status) is true exactly when status, with the whitespace at its
\* ends removed and in lower case, is finished, complete or completed; it is false for
\* every other text, for the empty text and for None.
C8_PredicateNormalization ==
    last.op = "_status_finished" => (ret <=> arg.word \in FinishedWords)

\* C8 witness: a padded, capitalised form of a finished word has been found finished.
C8_Witness ==
    /\ last.op = "_status_finished"
    /\ ret = TRUE
    /\ arg.text = <<" ">> \o str_Finished \o <<"\n">>

(***************************************************************************)
(* get_recent_events on its own: a log of n entries and a limit            *)
(***************************************************************************)
\* The longest log and the largest limit (either sign) get_recent_events is given.
MaxEntries == 15

MaxLimit == 12

\* The log after n notifications, for the work orders 1..n.
LogOf(n) == [i \in 1..n |-> Entry(i, "sms_simulated", Message(Ana, i, Tune_up))]

InitRecent ==
    /\ Quiet
    /\ workorders_json = NoFile
    /\ last_snapshot_json = NoFile
    /\ \E n \in 0..MaxEntries : event_log_json = IF n = 0 THEN NoFile ELSE FileOf(LogOf(n))
    /\ arg \in (0 - MaxLimit)..MaxLimit

ApplyRecent ==
    /\ last.op = "start"
    /\ ret' = get_recent_events(event_log_json, arg)
    /\ last' = Op("get_recent_events", 0, FALSE, <<>>, <<>>, <<>>, <<>>, NoBrief)
    /\ UNCHANGED <<workorders_json, last_snapshot_json, event_log_json, sms_out, page,
                   obs, work_orders, cli_out, arg>>

SpecRecent == InitRecent /\ [][ApplyRecent]_vars

\* The last k elements of s, oldest first.
LastK(s, k) == [i \in 1..k |-> s[Len(s) - k + i]]

\* C9 (as claimed): get_recent_events(limit) returns the last min(limit, n) entries in
\* insertion order when limit > 0, and an empty sequence when limit <= 0.
C9_LogWindow ==
    last.op = "get_recent_events" =>
        LET events == event_log_json.data
            n == Len(events)
        IN  ret = IF arg > 0 THEN LastK(events, IF arg < n THEN arg ELSE n) ELSE <<>>

(***************************************************************************)
(* app.py: the CLI prototype.  One session: main() has loaded the file,    *)
(* then the menu runs add, list and finish.                                *)
(***************************************************************************)
\* The check of load_work_orders that takes every work order without the flag for
\* notified (a plausible slip)
load_work_orders_all_notified(ok) ==
    IF workorders_json.exists /\ ok
    THEN [i \in DOMAIN workorders_json.data |->
             LET wo == workorders_json.data[i]
             IN  IF "notification_sent" \in DOMAIN wo THEN wo
                 ELSE [f \in DOMAIN wo \cup {"notification_sent"} |->
                          IF f = "notification_sent" THEN TRUE ELSE wo[f]]]
    ELSE <<>>

\* app.py: load_work_orders; its value is the list in memory afterwards.  A work order
\* without the key gets notification_sent = (status == "finished").
load_work_orders(ok) ==
    IF workorders_json.exists /\ ok
    THEN [i \in DOMAIN workorders_json.data |->
             LET wo == workorders_json.data[i]
             IN  IF "notification_sent" \in DOMAIN wo THEN wo
                 ELSE [f \in DOMAIN wo \cup {"notification_sent"} |->
                          IF f = "notification_sent"
                          THEN Get(wo, "status", None) = str_finished
                          ELSE wo[f]]]
    ELSE <<>>

\* app.py: save_work_orders; its value is the file afterwards
save_work_orders(ok) ==
    IF ok THEN FileOf(work_orders') ELSE workorders_json

\* What the user may type at the four prompts of add_work_order.
AddInputs ==
    {[customer |-> <<" ">> \o Ana, item |-> Tune_up, total |-> <<"2","5">>, status |-> <<>>],
     [customer |-> Bo, item |-> Tune_up, total |-> <<"0">>, status |-> str_finished \o <<" ">>],
     [customer |-> <<" ">>, item |-> Tune_up, total |-> <<"0">>, status |-> <<>>],
     [customer |-> Bo, item |-> <<>>, total |-> <<"0">>, status |-> <<>>],
     [customer |-> Bo, item |-> Tune_up, total |-> <<"-","1">>, status |-> <<>>],
     [customer |-> Bo, item |-> Tune_up, total |-> <<"a","b","c">>, status |-> <<>>]}

\* What the user may type at the prompt of finish_work_order.
FinishInputs == {<<"x">>} \cup {Text(n) : n \in 1..(MaxOrders + 1)}

\* What `last` holds after an operation of the CLI: the list in memory, the file and
\* the notifications printed, all as they were before it.
CliOp(op, wid, pending) ==
    [op |-> op, wid |-> wid, pending |-> pending, memory_before |-> work_orders,
     file_before |-> workorders_json, out_before |-> cli_out]

\* app.py: add_work_order, what it does to the list in memory and the file
AddWorkOrder(typed, wr_ok) ==
    LET work_order_id == MaxOf([i \in DOMAIN work_orders |-> work_orders[i].id]) + 1
        customer == Strip(typed.customer)
        item == Strip(typed.item)
        total == ParseNumber(typed.total)
        status == OrElse(Strip(typed.status), str_in_progress)
        valid == customer # <<>> /\ item # <<>> /\ total.ok /\ ~(total.val < 0)
        work_order == [id |-> work_order_id, customer |-> customer, item |-> item,
                       status |-> status, total |-> total.val,
                       notification_sent |-> FALSE]
    IN  /\ Len(work_orders) < MaxOrders
        /\ work_orders' = IF valid THEN Append(work_orders, work_order) ELSE work_orders
        /\ workorders_json' = IF valid THEN save_work_orders(wr_ok) ELSE workorders_json
        /\ UNCHANGED <<last_snapshot_json, event_log_json, sms_out, page, obs, cli_out,
                       arg, ret>>

\* app.py: add_work_order
add_work_order(typed, wr_ok) ==
    /\ AddWorkOrder(typed, wr_ok)
    /\ last' = CliOp("add_work_order", 0, FALSE)

\* app.py: list_work_orders prints and changes nothing
list_work_orders ==
    /\ last' = CliOp("list_work_orders", 0, FALSE)
    /\ UNCHANGED <<workorders_json, last_snapshot_json, event_log_json, sms_out, page,
                   obs, work_orders, cli_out, arg, ret>>

\* The check of notification_sent that never finds it set (a plausible slip)
AlreadyNotified_never(wo) == FALSE

\* finish_work_order: if work_order["notification_sent"]
AlreadyNotified(wo) == wo.notification_sent

\* app.py: finish_work_order, what it does to the list in memory, the file and stdout
FinishWorkOrder(typed, wr_ok) ==
    LET work_order_id == ParseNumber(typed)
        at == {i \in DOMAIN work_orders : work_orders[i].id = work_order_id.val}
        k == CHOOSE i \in at : \A j \in at : i <= j
        acts == /\ work_orders # <<>>
                /\ work_order_id.ok
                /\ at # {}
                /\ ~AlreadyNotified(work_orders[k])
    IN  /\ work_orders' =
               IF acts
               THEN [work_orders EXCEPT ![k].status = str_finished,
                                        ![k].notification_sent = TRUE]
               ELSE work_orders
        /\ workorders_json' = IF acts THEN save_work_orders(wr_ok) ELSE workorders_json
        /\ cli_out' =
               IF acts
               THEN Append(cli_out,
                           <<"Notification triggered: Text sent to ", work_orders[k].customer,
                             " for Work Order #", work_order_id.val,
                             " (Item: ", work_orders[k].item, ").">>)
               ELSE cli_out
        /\ UNCHANGED <<last_snapshot_json, event_log_json, sms_out, page, obs, arg, ret>>

\* app.py: finish_work_order
finish_work_order(typed, wr_ok) ==
    LET work_order_id == ParseNumber(typed)
    IN  /\ FinishWorkOrder(typed, wr_ok)
        /\ last' = CliOp("finish_work_order", work_order_id.val,
                         work_order_id.ok /\ Pending(work_orders, work_order_id.val))

\* main() on a first start: load_work_orders finds no file.
InitCli ==
    /\ workorders_json = NoFile
    /\ last_snapshot_json = NoFile
    /\ event_log_json = NoFile
    /\ sms_out = <<>>
    /\ page = [notified |-> <<>>, recent_events |-> <<>>]
    /\ obs = [p \in Procs |-> IdleObserver]
    /\ work_orders = load_work_orders(TRUE)
    /\ cli_out = <<>>
    /\ last = [op |-> "start", wid |-> 0, pending |-> FALSE, memory_before |-> <<>>,
               file_before |-> NoFile, out_before |-> <<>>]
    /\ arg = <<>>
    /\ ret = <<>>

CliAdd == \E typed \in AddInputs, wr_ok \in BOOLEAN : add_work_order(typed, wr_ok)

CliList == list_work_orders

CliFinish == \E typed \in FinishInputs, wr_ok \in BOOLEAN : finish_work_order(typed, wr_ok)

NextCli == CliAdd \/ CliList \/ CliFinish

SpecCli == InitCli /\ [][NextCli]_vars

\* How many notifications printed by the CLI are for wid.
CliPrintedFor(out, wid) == Cardinality({i \in DOMAIN out : out[i][4] = wid})

\* C4: over any sequence of add_work_order and finish_work_order calls the notification
\* for a work order id is printed at most once, and a finish_work_order on a work order
\* whose notification_sent is already true prints nothing and changes neither the list
\* in memory nor the saved file.
C4_CliAtMostOnce ==
    /\ \A wid \in 1..MaxOrders : CliPrintedFor(cli_out, wid) <= 1
    /\ (/\ last.op = "finish_work_order"
        /\ \E i \in DOMAIN last.memory_before :
               /\ last.memory_before[i].id = last.wid
               /\ last.memory_before[i].notification_sent) =>
           /\ cli_out = last.out_before
           /\ work_orders = last.memory_before
           /\ workorders_json = last.file_before

\* C4 witness: finish_work_order has been called again on a work order already
\* notified, while another one is still open.
C4_Witness ==
    /\ last.op = "finish_work_order"
    /\ CliPrintedFor(cli_out, last.wid) = 1
    /\ Len(work_orders) = MaxOrders
    /\ \E i \in DOMAIN last.memory_before :
           /\ last.memory_before[i].id = last.wid
           /\ last.memory_before[i].notification_sent

(***************************************************************************)
(* web_app.py: GET requests served together.  Each request runs the GET    *)
(* branch of index() one file call at a time: get_workorders,              *)
(* load_snapshot, one append_event per work order that became finished,    *)
(* save_snapshot, get_recent_events.  Nothing in the source orders the     *)
(* calls of different requests.                                            *)
(***************************************************************************)
\* The positions of new_list, from i on, whose work order became finished.
Transitions(o) ==
    {j \in DOMAIN o.new_list : j >= o.i /\ BecameFinished(o.old_list, o.new_list[j])}

\* index() line 197: new_list = get_workorders(source="json")
ObsGetWorkorders(p) ==
    /\ obs[p].pc = "idle"
    /\ obs' = [obs EXCEPT ![p].pc = "load_snapshot", ![p].new_list = get_workorders(TRUE)]
    /\ UNCHANGED <<workorders_json, last_snapshot_json, event_log_json, sms_out, page,
                   work_orders, cli_out, last, arg, ret>>

\* index() line 198: old_list = load_snapshot()
ObsLoadSnapshot(p) ==
    /\ obs[p].pc = "load_snapshot"
    /\ obs' = [obs EXCEPT ![p].pc = "detect", ![p].old_list = load_snapshot(TRUE)]
    /\ UNCHANGED <<workorders_json, last_snapshot_json, event_log_json, sms_out, page,
                   work_orders, cli_out, last, arg, ret>>

\* detect_finished_and_notify: the loop runs on to the next work order that became
\* finished and does its append_event, print and notified.append.
ObsAppendEvent(p) ==
    /\ obs[p].pc = "detect"
    /\ Transitions(obs[p]) # {}
    /\ LET j == CHOOSE k \in Transitions(obs[p]) : \A m \in Transitions(obs[p]) : k <= m
           done == DetectOne(obs[p].old_list, obs[p].new_list[j],
                             [log |-> event_log_json, out |-> sms_out,
                              notified |-> obs[p].notified],
                             [rd |-> TRUE, wr |-> TRUE])
       IN  /\ event_log_json' = done.log
           /\ sms_out' = done.out
           /\ obs' = [obs EXCEPT ![p].i = j + 1, ![p].notified = done.notified]
    /\ UNCHANGED <<workorders_json, last_snapshot_json, page, work_orders, cli_out,
                   last, arg, ret>>

\* The loop has ended; index() line 200: save_snapshot(new_list)
ObsSaveSnapshot(p) ==
    /\ obs[p].pc = "detect"
    /\ Transitions(obs[p]) = {}
    /\ last_snapshot_json' = save_snapshot(obs[p].new_list, TRUE)
    /\ obs' = [obs EXCEPT ![p].pc = "recent"]
    /\ UNCHANGED <<workorders_json, event_log_json, sms_out, page, work_orders, cli_out,
                   last, arg, ret>>

\* index() lines 201-204: get_recent_events(10) and the page
ObsRecentEvents(p) ==
    /\ obs[p].pc = "recent"
    /\ page' = [notified |-> obs[p].notified,
                recent_events |-> get_recent_events(event_log_json, RecentLimit)]
    /\ obs' = [obs EXCEPT ![p].pc = "done"]
    /\ UNCHANGED <<workorders_json, last_snapshot_json, event_log_json, sms_out,
                   work_orders, cli_out, last, arg, ret>>

\* No GET request has started.
NoneStarted == \A p \in Procs : obs[p].pc = "idle"

\* The POST requests are served whole while no GET has started; then the GETs run,
\* their file calls in any order.
NextConc ==
    \/ NoneStarted /\ Add
    \/ NoneStarted /\ MarkFinished
    \/ \E p \in Procs : ObsGetWorkorders(p)
    \/ \E p \in Procs : ObsLoadSnapshot(p)
    \/ \E p \in Procs : ObsAppendEvent(p)
    \/ \E p \in Procs : ObsSaveSnapshot(p)
    \/ \E p \in Procs : ObsRecentEvents(p)

SpecConc == Init /\ [][NextConc]_vars

\* Whether the list wos shows the work order wid finished.
ShowsFinished(wos, wid) ==
    \E i \in DOMAIN wos : wos[i].id = wid /\ _status_finished(wos[i].status)

\* C1 (as claimed): once all the concurrent GETs have completed, a work order that
\* every one of them saw finished (it had just become finished: no GET had run since)
\* has had exactly one simulated SMS and has exactly one entry in the event log.
C1_ExactlyOnceConcurrent ==
    (\A p \in Procs : obs[p].pc = "done") =>
        \A wid \in 1..MaxOrders :
            (\A p \in Procs : ShowsFinished(obs[p].new_list, wid)) =>
                /\ SmsFor(event_log_json.data, wid) = 1
                /\ PrintedFor(sms_out, wid) = 1

(***************************************************************************)
(* web_app.py: GET requests whose file calls may raise OSError.  Each read *)
(* and write is in a try/except OSError of its own, so any of them may     *)
(* fail alone.                                                             *)
(***************************************************************************)
\* The most file calls that fail within one GET.
MaxFaults == 1

\* How many calls of io fail.
Faults(io) ==
    Cardinality({c \in {"wos", "snap_rd", "snap_wr"} : ~io[c]})
    + Cardinality({i \in DOMAIN io.log : ~io.log[i].rd})
    + Cardinality({i \in DOMAIN io.log : ~io.log[i].wr})

\* The outcomes of the file calls of one GET.
IoChoices ==
    {io \in [wos : BOOLEAN, snap_rd : BOOLEAN, snap_wr : BOOLEAN,
             log : [1..MaxOrders -> [rd : BOOLEAN, wr : BOOLEAN]]] :
         Faults(io) <= MaxFaults}

ObserveFaulty == \E io \in IoChoices : WebGet(io)

NextFail == Add \/ MarkFinished \/ ObserveFaulty

SpecFail == Init /\ [][NextFail]_vars

\* C10 (as claimed): when the event-log write fails for a work order that a GET found
\* newly finished, the transition is not marked as handled: the snapshot that GET
\* leaves does not show the work order finished, so the next GET dispatches it again.
C10_FailedDispatchStaysPending ==
    last.op = "get" =>
        \A i \in DOMAIN last.new_list :
            (BecameFinished(last.old_list, last.new_list[i]) /\ ~last.io.log[i].wr) =>
                ~OldFinished(last_snapshot_json.data, last.new_list[i].id)

(***************************************************************************)
(* The order in which a GET makes its effects durable                      *)
(***************************************************************************)
\* Whether the marker that keeps the work order wid from being dispatched again is on
\* disk: the snapshot shows it finished, or its stored notification_sent is true.
MarkerStored(wid) ==
    \/ OldFinished(last_snapshot_json.data, wid)
    \/ \E i \in DOMAIN workorders_json.data :
           /\ workorders_json.data[i].id = wid
           /\ workorders_json.data[i].notification_sent = TRUE

\* C11 (as claimed): in every state, those between the file calls of one GET included,
\* a work order with a notification entry in the event log has its marker on disk: the
\* snapshot shows it finished, or its notification_sent is true.
C11_MarkerBeforeLog ==
    \A k \in DOMAIN event_log_json.data :
        MarkerStored(event_log_json.data[k].workorder_id)

(***************************************************************************)
(* The event log over time                                                 *)
(***************************************************************************)
\* Whether the list s is the beginning of the list t.
IsPrefix(s, t) == Len(s) <= Len(t) /\ SubSeq(t, 1, Len(s)) = s

\* C12 (as claimed): whatever the requests and whichever reads of the log fail, every
\* step leaves the event log as it was or longer by entries at its end: the log before
\* a step is a prefix of the log after it.
C12_AppendOnlyLog ==
    [][IsPrefix(event_log_json.data, event_log_json'.data)]_vars

(***************************************************************************)
(* A GET that cannot read workorders.json                                  *)
(***************************************************************************)
\* C13 (as claimed): a GET whose read of workorders.json fails (its read of the
\* snapshot going through) leaves the stored snapshot and the event log as they were.
C13_StoreFailureAborts ==
    (last.op = "get" /\ ~last.io.wos /\ last.io.snap_rd) =>
        /\ last_snapshot_json.data = last.old_list
        /\ event_log_json.data = last.log_before

(***************************************************************************)
(* The CLI and the web prototype on the same workorders.json, every file   *)
(* call going through.  The file may be one written before                 *)
(* notification_sent existed: load_work_orders and the mark_finished       *)
(* branch both provide for work orders without it.                         *)
(***************************************************************************)
\* The statuses of the work order of such a file.
LegacyStatuses == {str_finished, str_Finished, str_in_progress}

\* A work order as stored before notification_sent existed.
LegacyWorkOrder(status) ==
    [id |-> 1, customer |-> Ana, item |-> Tune_up, status |-> status, total |-> 25]

\* app.py: main() starts (again): load_work_orders replaces the list in memory.
CliStart(ok) ==
    /\ work_orders' = load_work_orders(ok)
    /\ UNCHANGED <<workorders_json, last_snapshot_json, event_log_json, sms_out, page,
                   obs, cli_out, last, arg, ret>>

\* Both prototypes started on no file or on a legacy file: main() has loaded it.
InitShop ==
    /\ \/ workorders_json = NoFile
       \/ \E status \in LegacyStatuses :
              workorders_json = FileOf(<<LegacyWorkOrder(status)>>)
    /\ last_snapshot_json = NoFile
    /\ event_log_json = NoFile
    /\ sms_out = <<>>
    /\ page = [notified |-> <<>>, recent_events |-> <<>>]
    /\ obs = [p \in Procs |-> IdleObserver]
    /\ work_orders = load_work_orders(TRUE)
    /\ cli_out = <<>>
    /\ last = NoBrief
    /\ arg = <<>>
    /\ ret = <<>>

\* The most work orders in the file or in memory when both prototypes run, and the
\* most notifications either prints then (or the web prototype when file calls fail).
MaxShopOrders == 1

MaxShopOut == 1

ShopAdd ==
    /\ Len(workorders_json.data) < MaxShopOrders
    /\ \E form \in AddForms : IndexAdd(form, TRUE, TRUE) /\ UNCHANGED last

ShopMarkFinished ==
    \E text \in MarkForms : IndexMarkFinished(text, TRUE, TRUE) /\ UNCHANGED last

ShopGet ==
    /\ Len(sms_out) < MaxShopOut
    /\ IndexGet(GetOk) /\ UNCHANGED last

ShopCliStart == CliStart(TRUE)

ShopCliAdd ==
    /\ Len(work_orders) < MaxShopOrders
    /\ \E typed \in AddInputs : AddWorkOrder(typed, TRUE) /\ UNCHANGED last

ShopCliFinish ==
    /\ Len(cli_out) < MaxShopOut
    /\ \E typed \in FinishInputs : FinishWorkOrder(typed, TRUE) /\ UNCHANGED last

NextShop ==
    ShopAdd \/ ShopMarkFinished \/ ShopGet \/ ShopCliStart \/ ShopCliAdd \/ ShopCliFinish

SpecShop == InitShop /\ [][NextShop]_vars

\* Whether every work order of the list wos that has notification_sent true has a
\* finished status.
NotifiedAreFinished(wos) ==
    \A i \in DOMAIN wos :
        Get(wos[i], "notification_sent", FALSE) = TRUE =>
            _status_finished(Get(wos[i], "status", None))

\* C14: whatever the CLI (load_work_orders, add_work_order, finish_work_order) and the
\* web prototype (add, mark_finished, GET) have done, every work order in
\* workorders.json, and in the CLI's memory, whose notification_sent is true has a
\* status that _status_finished accepts.
C14_NotifiedImpliesFinished ==
    /\ NotifiedAreFinished(workorders_json.data)
    /\ NotifiedAreFinished(work_orders)

\* C14 witness: the CLI has finished a work order and printed its notification, the
\* web prototype has then marked it finished in the file and a GET has dispatched for
\* it: it is notified in memory with status "finished", in the file with "Finished".
C14_Witness ==
    /\ cli_out # <<>>
    /\ sms_out # <<>>
    /\ work_orders # <<>>
    /\ workorders_json.data # <<>>
    /\ work_orders[1].notification_sent /\ work_orders[1].status = str_finished
    /\ Get(workorders_json.data[1], "notification_sent", FALSE)
    /\ workorders_json.data[1].status = str_Finished

(***************************************************************************)
(* web_app.py: POST requests served together, next to a CLI session.  An   *)
(* add or mark_finished request that passes its checks reads              *)
(* workorders.json (get_workorders), changes the list it read, and writes  *)
(* the whole file (save_workorders); nothing in the source orders the      *)
(* reads and writes of different requests.                                 *)
(***************************************************************************)
\* The most ids the model assigns.
MaxAssigned == MaxOrders + 1

\* A POST request that has not started.
IdlePost == [pc |-> "idle", work_orders |-> <<>>, effect |-> <<>>]

\* The forms of AddForms that pass `if customer and item`.
ValidAddForms ==
    {form \in AddForms : /\ Strip(OrElse(form.customer, <<>>)) # <<>>
                         /\ Strip(OrElse(form.item, <<>>)) # <<>>}

\* What identifies an added work order: fields no request changes.
Added(wo) == [id |-> wo.id, customer |-> wo.customer, item |-> wo.item]

\* index() lines 166-175: work_orders = get_workorders(), new_wo with _next_id, append.
\* `last` notes the id assigned.
PostAddRead(p, form) ==
    LET wos == get_workorders(TRUE)
        new_wo == NewWorkOrder(form, wos)
    IN  /\ obs[p].pc = "idle"
        /\ Len(last.assigned) < MaxAssigned
        /\ Len(wos) < MaxOrders
        /\ obs' = [obs EXCEPT ![p] = [pc |-> "add_save", work_orders |-> Append(wos, new_wo),
                                      effect |-> <<Added(new_wo)>>]]
        /\ last' = [last EXCEPT !.assigned = Append(@, new_wo.id)]
        /\ UNCHANGED <<workorders_json, last_snapshot_json, event_log_json, sms_out, page,
                       work_orders, cli_out, arg, ret>>

\* index() lines 176-177: save_workorders(work_orders) and the redirect.  `last` notes
\* the work order the completed request added.
PostAddSave(p) ==
    /\ obs[p].pc = "add_save"
    /\ workorders_json' = save_workorders(obs[p].work_orders, TRUE)
    /\ obs' = [obs EXCEPT ![p] = IdlePost]
    /\ last' = [last EXCEPT !.added = @ \cup {obs[p].effect[1]}]
    /\ UNCHANGED <<last_snapshot_json, event_log_json, sms_out, page, work_orders,
                   cli_out, arg, ret>>

\* index() lines 185-192: work_orders = get_workorders() and the loop, for a
\* workorder_id that int() accepts.
PostMarkRead(p, text) ==
    LET wid == WidOf(text)
        wos == get_workorders(TRUE)
        found == \E i \in DOMAIN wos : Get(wos[i], "id", NoId) = wid.val
    IN  /\ obs[p].pc = "idle"
        /\ wid.ok
        /\ obs' = [obs EXCEPT ![p] = [pc |-> "mark_save", work_orders |-> MarkIn(wos, wid.val),
                                      effect |-> IF found THEN <<wid.val>> ELSE <<>>]]
        /\ UNCHANGED <<workorders_json, last_snapshot_json, event_log_json, sms_out, page,
                       work_orders, cli_out, last, arg, ret>>

\* index() lines 193-194: save_workorders(work_orders) and the redirect.  `last` notes
\* the id the completed request marked finished.
PostMarkSave(p) ==
    /\ obs[p].pc = "mark_save"
    /\ workorders_json' = save_workorders(obs[p].work_orders, TRUE)
    /\ obs' = [obs EXCEPT ![p] = IdlePost]
    /\ last' = [last EXCEPT !.marked = @ \cup {obs[p].effect[i] : i \in DOMAIN obs[p].effect}]
    /\ UNCHANGED <<last_snapshot_json, event_log_json, sms_out, page, work_orders,
                   cli_out, arg, ret>>

\* app.py: add_work_order, whole.  `last` notes the id assigned when it added one.
PostsCliAdd ==
    /\ Len(last.assigned) < MaxAssigned
    /\ \E typed \in AddInputs : AddWorkOrder(typed, TRUE)
    /\ last' = IF Len(work_orders') > Len(work_orders)
               THEN [last EXCEPT !.assigned = Append(@, work_orders'[Len(work_orders')].id),
                                 !.by_cli = TRUE]
               ELSE last

\* No file yet, main() has loaded nothing, no request in flight.
InitPosts ==
    /\ workorders_json = NoFile
    /\ last_snapshot_json = NoFile
    /\ event_log_json = NoFile
    /\ sms_out = <<>>
    /\ page = [notified |-> <<>>, recent_events |-> <<>>]
    /\ obs = [p \in Procs |-> IdlePost]
    /\ work_orders = load_work_orders(TRUE)
    /\ cli_out = <<>>
    /\ last = [assigned |-> <<>>, added |-> {}, marked |-> {}, by_cli |-> FALSE]
    /\ arg = <<>>
    /\ ret = <<>>

NextPosts ==
    \/ \E p \in Procs, form \in ValidAddForms : PostAddRead(p, form)
    \/ \E p \in Procs : PostAddSave(p)
    \/ \E p \in Procs, text \in MarkForms : PostMarkRead(p, text)
    \/ \E p \in Procs : PostMarkSave(p)
    \/ PostsCliAdd

SpecPosts == InitPosts /\ [][NextPosts]_vars

\* C15 (as claimed): after any adds (web add requests, served together or not, and
\* add_work_order of the CLI) the work orders in the file have pairwise distinct ids,
\* and every id assigned is greater than every id assigned before it.
C15_UniqueIncreasingIds ==
    /\ \A i, j \in DOMAIN workorders_json.data :
           i # j => workorders_json.data[i].id # workorders_json.data[j].id
    /\ \A i, j \in DOMAIN last.assigned : i < j => last.assigned[i] < last.assigned[j]

\* C20 (as claimed): once the web add and mark_finished requests served together have
\* all completed (the CLI having added nothing), every work order a request added is
\* in the file and every work order a request marked finished has a finished status
\* there.
C20_NoLostUpdates ==
    ((\A p \in Procs : obs[p].pc = "idle") /\ ~last.by_cli) =>
        /\ \A a \in last.added :
               \E i \in DOMAIN workorders_json.data : Added(workorders_json.data[i]) = a
        /\ \A wid \in last.marked :
               \E i \in DOMAIN workorders_json.data :
                   /\ workorders_json.data[i].id = wid
                   /\ _status_finished(workorders_json.data[i].status)

(***************************************************************************)
(* detect_finished_and_notify on its own: the lists it is given may come   *)
(* from files no request of this program wrote, so their work orders may   *)
(* lack an id or a status.                                                 *)
(***************************************************************************)
\* The longest list detect_finished_and_notify is given; the ids are 1..MaxList.
MaxList == 2

\* A work order with id wid and the status `status`.
WorkOrder(wid, status) == [id |-> wid, customer |-> Ana, item |-> Tune_up, status |-> status]

\* The work orders with an id and a status.
ValidWorkOrders ==
    {WorkOrder(wid, status) : wid \in 1..MaxList, status \in {str_in_progress, str_Finished}}

\* A finished work order without an id.
NoIdWorkOrder == [customer |-> Bo, item |-> Tune_up, status |-> str_Finished]

\* Work orders without a status: the key missing, None, the empty text.
NoStatusWorkOrders ==
    {[id |-> 1, customer |-> Ana, item |-> Tune_up], WorkOrder(1, None), WorkOrder(1, <<>>)}

\* The lists of at most n elements of the set S.
RECURSIVE ListsUpTo(_, _)
ListsUpTo(S, n) ==
    IF n = 0 THEN {<<>>}
    ELSE LET shorter == ListsUpTo(S, n - 1)
         IN  shorter \cup {Append(l, x) : l \in shorter, x \in S}

\* The two lists: arg is [old_list, new_list].  Nothing is on disk or printed yet.
InitDetect ==
    /\ Blank
    /\ \E old_list \in ListsUpTo(ValidWorkOrders \cup {NoIdWorkOrder}, MaxList),
          new_list \in ListsUpTo(ValidWorkOrders \cup {NoIdWorkOrder}
                                     \cup NoStatusWorkOrders, MaxList) :
           arg = [old_list |-> old_list, new_list |-> new_list]

ApplyDetect ==
    LET done == detect_finished_and_notify(arg.old_list, arg.new_list, event_log_json,
                                           sms_out, AllOk(Len(arg.new_list)))
    IN  /\ last.op = "start"
        /\ ret' = done.notified
        /\ event_log_json' = done.log
        /\ sms_out' = done.out
        /\ last' = Op("detect_finished_and_notify", 0, FALSE, <<>>, <<>>, <<>>, <<>>, NoBrief)
        /\ UNCHANGED <<workorders_json, last_snapshot_json, page, obs, work_orders,
                       cli_out, arg>>

SpecDetect == InitDetect /\ [][ApplyDetect]_vars

\* Whether the work order has an id and a status that is not None or empty.
IsValidRecord(wo) ==
    /\ "id" \in DOMAIN wo
    /\ "status" \in DOMAIN wo
    /\ wo.status # None
    /\ wo.status # <<>>

\* C16 (as claimed): a work order of new_list without an id or without a status
\* (missing, None or empty) produces no transition, no log entry and no dispatch:
\* every element of the notified list, every log entry and every line printed is for
\* a work order with both; and the other work orders are still processed: each of
\* them that became finished is in the notified list.
C16_InvalidRecordsSkipped ==
    last.op = "detect_finished_and_notify" =>
        LET new_list == arg.new_list
            valid == {i \in DOMAIN new_list : IsValidRecord(new_list[i])}
        IN  /\ \A n \in DOMAIN ret : \E i \in valid : ret[n][1] = new_list[i].id
            /\ \A n \in DOMAIN event_log_json.data :
                   \E i \in valid : event_log_json.data[n].workorder_id = new_list[i].id
            /\ \A n \in DOMAIN sms_out : \E i \in valid : sms_out[n][2][4] = new_list[i].id
            /\ \A i \in valid :
                   BecameFinished(arg.old_list, new_list[i]) =>
                       \E n \in DOMAIN ret : ret[n][1] = new_list[i].id

\* Whether every work order of the list has an id and no two have the same.
DistinctIds(wos) ==
    /\ \A i \in DOMAIN wos : "id" \in DOMAIN wos[i]
    /\ \A i, j \in DOMAIN wos : i # j => wos[i].id # wos[j].id

\* Whether the list shows the id wid with a finished status.
FinishedIn(wos, wid) ==
    \E k \in DOMAIN wos : wos[k].id = wid /\ _status_finished(Get(wos[k], "status", None))

\* The work orders of new_list finished now and not finished in old_list, as
\* (id, customer, item), in the order of new_list.
RECURSIVE NewlyFinished(_, _)
NewlyFinished(old_list, new_list) ==
    IF new_list = <<>> THEN <<>>
    ELSE LET wo == Head(new_list)
             rest == NewlyFinished(old_list, Tail(new_list))
         IN  IF FinishedIn(<<wo>>, wo.id) /\ ~FinishedIn(old_list, wo.id)
             THEN <<<<wo.id, wo.customer, wo.item>>>> \o rest
             ELSE rest

\* C17: for lists with distinct ids in each, detect_finished_and_notify returns exactly
\* the work orders of new_list whose status is finished and whose status in old_list
\* is not (no entry there counting as not finished), in the order of new_list; so
\* nothing for one already finished in old_list or one that went from finished to not.
C17_SnapshotDiffResult ==
    (/\ last.op = "detect_finished_and_notify"
     /\ DistinctIds(arg.old_list)
     /\ DistinctIds(arg.new_list)) =>
        ret = NewlyFinished(arg.old_list, arg.new_list)

\* C17 witness: the second work order of new_list was already finished in old_list,
\* and the first, with the greater id, became finished: it alone is returned.
C17_Witness ==
    /\ last.op = "detect_finished_and_notify"
    /\ arg.old_list = <<WorkOrder(1, str_Finished), WorkOrder(2, str_in_progress)>>
    /\ arg.new_list = <<WorkOrder(2, str_Finished), WorkOrder(1, str_Finished)>>
    /\ ret = <<<<2, Ana, Tune_up>>>>

(***************************************************************************)
(* The finished test of each prototype on the same status: the CLI's, in   *)
(* load_work_orders for a work order stored without notification_sent, and *)
(* the web prototype's _status_finished.                                   *)
(***************************************************************************)
\* The file holds one work order without notification_sent; arg is the word its status
\* was made from and the status itself, as in InitStatus.
InitAgree ==
    /\ Quiet
    /\ last_snapshot_json = NoFile
    /\ event_log_json = NoFile
    /\ \/ \E w \in FinishedWords \cup OtherWords, l \in Pads, r \in Pads :
              \E up \in Casings(w) : arg = [word |-> w, text |-> l \o Cased(w, up) \o r]
       \/ arg = [word |-> None, text |-> None]
    /\ workorders_json = FileOf(<<LegacyWorkOrder(arg.text)>>)

\* main() loads the file; ret is what _status_finished says of the same status.
LoadAndTest ==
    /\ last.op = "start"
    /\ work_orders' = load_work_orders(TRUE)
    /\ ret' = _status_finished(Get(workorders_json.data[1], "status", None))
    /\ last' = Op("load_work_orders", 0, FALSE, <<>>, <<>>, <<>>, <<>>, NoBrief)
    /\ UNCHANGED <<workorders_json, last_snapshot_json, event_log_json, sms_out, page,
                   obs, cli_out, arg>>

SpecAgree == InitAgree /\ [][LoadAndTest]_vars

\* C18 (as claimed): for every status, the finished test by which load_work_orders
\* derives a missing notification_sent gives the answer _status_finished gives.
C18_ModesAgreeOnFinished ==
    last.op = "load_work_orders" => (work_orders[1].notification_sent <=> ret)

(***************************************************************************)
(* append_event on its own: a log of n entries, a new entry, and whether   *)
(* its read and its write of the file go through.                          *)
(***************************************************************************)
\* arg is [n, wid, rd, wr]: the log holds n entries, the entry is for wid.
InitAppend ==
    /\ Quiet
    /\ workorders_json = NoFile
    /\ last_snapshot_json = NoFile
    /\ \E n \in 0..MaxEntries, wid \in 1..MaxOrders, rd \in BOOLEAN, wr \in BOOLEAN :
           /\ event_log_json = IF n = 0 THEN NoFile ELSE FileOf(LogOf(n))
           /\ arg = [n |-> n, wid |-> wid, rd |-> rd, wr |-> wr]

\* append_event has no return statement and both file calls swallow OSError: whatever
\* happens, the caller gets None and no exception.
ApplyAppend ==
    /\ last.op = "start"
    /\ event_log_json' = append_event(event_log_json, arg.wid, "sms_simulated",
                                      Message(Ana, arg.wid, Tune_up), arg.rd, arg.wr)
    /\ ret' = None
    /\ last' = Op("append_event", 0, FALSE, <<>>, <<>>, <<>>, <<>>, NoBrief)
    /\ UNCHANGED <<workorders_json, last_snapshot_json, sms_out, page, obs, work_orders,
                   cli_out, arg>>

SpecAppend == InitAppend /\ [][ApplyAppend]_vars

\* C19 (as claimed): a call of append_event leaves the stored log equal to the log
\* before it followed by the new entry, or reports a failure to its caller (its
\* outcome is not None).
C19_AppendNeverDropsSilently ==
    last.op = "append_event" =>
        \/ event_log_json.data =
               Append(LogOf(arg.n), Entry(arg.wid, "sms_simulated",
                                          Message(Ana, arg.wid, Tune_up)))
        \/ ret # None

(***************************************************************************)
(* What a GET writes.  The requests are served one at a time; any file     *)
(* call of a GET may fail.  `last` keeps of a GET only which of its calls  *)
(* went through.  GETs are served while fewer than MaxShopOut lines are    *)
(* printed.                                                                *)
(***************************************************************************)
\* What `last` holds here: the request served last and, for a GET, whether its read of
\* workorders.json, its write of the snapshot, and all its writes went through.
Served(op, wos, snap_wr, writes) ==
    [op |-> op, wos |-> wos, snap_wr |-> snap_wr, writes |-> writes]

InitFrame ==
    /\ workorders_json = NoFile
    /\ last_snapshot_json = NoFile
    /\ event_log_json = NoFile
    /\ sms_out = <<>>
    /\ page = [notified |-> <<>>, recent_events |-> <<>>]
    /\ obs = [p \in Procs |-> IdleObserver]
    /\ work_orders = <<>>
    /\ cli_out = <<>>
    /\ last = Served("start", TRUE, TRUE, TRUE)
    /\ arg = <<>>
    /\ ret = <<>>

FrameAdd ==
    /\ \E form \in AddForms : IndexAdd(form, TRUE, TRUE)
    /\ last' = Served("add", TRUE, TRUE, TRUE)

FrameMarkFinished ==
    /\ \E text \in MarkForms : IndexMarkFinished(text, TRUE, TRUE)
    /\ last' = Served("mark_finished", TRUE, TRUE, TRUE)

\* The outcomes of the file calls of one GET here: any of the read of workorders.json,
\* the read and the write of the snapshot, and the writes of the log (all of them
\* together) may fail.
FrameIoChoices ==
    {[wos |-> wos, snap_rd |-> snap_rd, snap_wr |-> snap_wr,
      log |-> [i \in 1..MaxOrders |-> [rd |-> TRUE, wr |-> log_wr]]] :
         wos \in BOOLEAN, snap_rd \in BOOLEAN, snap_wr \in BOOLEAN, log_wr \in BOOLEAN}

\* A GET; of the append_event calls only those it makes count as writes.
FrameGet ==
    \E io \in FrameIoChoices :
        LET new_list == get_workorders(io.wos)
            old_list == load_snapshot(io.snap_rd)
            appends == {i \in DOMAIN new_list : BecameFinished(old_list, new_list[i])}
        IN  /\ Len(sms_out) < MaxShopOut
            /\ IndexGet(io)
            /\ last' = Served("get", io.wos \/ ~workorders_json.exists, io.snap_wr,
                              io.snap_wr /\ \A i \in appends : io.log[i].wr)

NextFrame == FrameAdd \/ FrameMarkFinished \/ FrameGet

SpecFrame == InitFrame /\ [][NextFrame]_vars

====
